---- MODULE Spec2Model ----
(***************************************************************************)
(* pmemkv tree3 engine: a hybrid B+ tree whose leaves live in a persistent *)
(* pool (KVLeaf / KVSlot) and whose inner nodes and leaf mirrors           *)
(* (KVInnerNode / KVLeafNode) are volatile and rebuilt by Recover().       *)
(*                                                                         *)
(* Strings are sequences of bytes (0..255).  Array indices are 0-based as  *)
(* in the source.  Pointers are identifiers, NULL is 0.                    *)
(***************************************************************************)
EXTENDS Integers, Sequences, FiniteSets, TLC

VARIABLES pmpool, tree_top, nodes, leaves_prealloc, last, budget, expect, calls,
          hashing, payload

vars == <<pmpool, tree_top, nodes, leaves_prealloc, last, budget, expect, calls,
          hashing, payload>>

NULL == 0

\* tree3.h: 61..65.  LEAF_KEYS is 48 in the source; the model scales the
\* leaf down (every formula below is stated in terms of LEAF_KEYS).
INNER_KEYS == 4
INNER_KEYS_MIDPOINT == INNER_KEYS \div 2
INNER_KEYS_UPPER == (INNER_KEYS \div 2) + 1
LEAF_KEYS == 2
LEAF_KEYS_MIDPOINT == LEAF_KEYS \div 2

Slots == 0..(LEAF_KEYS - 1)

\* ------------------------------------------------------------------------
\* Bounds of the model
\* ------------------------------------------------------------------------
\* keys the initial pool may already hold (inserted one by one with put)
MaxPreload == 11
\* operations applied after the start
MaxOps == 2

\* The key universe, in ascending order of std::string::compare:
\* "", "a", "a\0b", "b", "bh", "c", "d", "e", "f", "g", "h", "i".
\* "a\0b" and "bh" have the same Pearson hash (114); "" hashes to 0 -> 1.
KeySeq ==
    << <<>>, <<97>>, <<97, 0, 98>>, <<98>>, <<98, 104>>, <<99>>, <<100>>,
       <<101>>, <<102>>, <<103>>, <<104>>, <<105>> >>
Keys == {KeySeq[i] : i \in 1..Len(KeySeq)}
\* the keys the operations after the start are applied to
OpKeys == {<<>>, <<97, 0, 98>>, <<98, 104>>, <<105>>}
Values == {<<>>, <<33>>}

\* ------------------------------------------------------------------------
\* std::string::compare
\* ------------------------------------------------------------------------
RECURSIVE Compare(_, _)
Compare(a, b) ==
    IF a = <<>> /\ b = <<>> THEN 0
    ELSE IF a = <<>> THEN -1
    ELSE IF b = <<>> THEN 1
    ELSE IF Head(a) < Head(b) THEN -1
    ELSE IF Head(a) > Head(b) THEN 1
    ELSE Compare(Tail(a), Tail(b))

\* ------------------------------------------------------------------------
\* Pearson hash (RFC 3074 table, modified so that 0 is never returned)
\* ------------------------------------------------------------------------
PEARSON_LOOKUP_TABLE ==
    << 251, 175, 119, 215, 81,  14,  79,  191, 103, 49,  181, 143, 186, 157, 0,   232,
       31,  32,  55,  60,  152, 58,  17,  237, 174, 70,  160, 144, 220, 90,  57,  223,
       59,  3,   18,  140, 111, 166, 203, 196, 134, 243, 124, 95,  222, 179, 197, 65,
       180, 48,  36,  15,  107, 46,  233, 130, 165, 30,  123, 161, 209, 23,  97,  16,
       40,  91,  219, 61,  100, 10,  210, 109, 250, 127, 22,  138, 29,  108, 244, 67,
       207, 9,   178, 204, 74,  98,  126, 249, 167, 116, 34,  77,  193, 200, 121, 5,
       20,  113, 71,  35,  128, 13,  182, 94,  25,  226, 227, 199, 75,  27,  41,  245,
       230, 224, 43,  225, 177, 26,  155, 150, 212, 142, 218, 115, 241, 73,  88,  105,
       39,  114, 62,  255, 192, 201, 145, 214, 168, 158, 221, 148, 154, 122, 12,  84,
       82,  163, 44,  139, 228, 236, 205, 242, 217, 11,  187, 146, 159, 64,  86,  239,
       195, 42,  106, 198, 118, 112, 184, 172, 87,  2,   173, 117, 176, 229, 247, 253,
       137, 185, 99,  164, 102, 147, 45,  66,  231, 52,  141, 211, 194, 206, 246, 238,
       56,  110, 78,  248, 63,  240, 189, 93,  92,  51,  53,  183, 19,  171, 72,  50,
       33,  104, 101, 69,  8,   252, 83,  120, 76,  135, 85,  54,  202, 125, 188, 213,
       96,  235, 136, 208, 162, 129, 190, 132, 156, 38,  47,  1,   7,   254, 24,  4,
       216, 131, 89,  21,  28,  133, 37,  153, 149, 80,  170, 68,  6,   169, 234, 151 >>

\* bitwise exclusive or of two naturals
RECURSIVE Xor(_, _)
Xor(a, b) ==
    IF a = 0 THEN b
    ELSE IF b = 0 THEN a
    ELSE (((a % 2) + (b % 2)) % 2) + (2 * Xor(a \div 2, b \div 2))

\* hash ^ data[i]: hash is a uint8_t, data[i] a char; both are promoted to
\* int.  With a signed char a byte >= 0x80 is negative, and so is the result.
PearsonIndex(hash, byte) ==
    IF byte < 128 THEN Xor(hash, byte) ELSE Xor(hash, byte) - 256

RECURSIVE PearsonLoop(_, _, _)
PearsonLoop(hash, data, i) ==
    IF i > 0
    THEN PearsonLoop(PEARSON_LOOKUP_TABLE[PearsonIndex(hash, data[i]) + 1], data, i - 1)
    ELSE hash

PearsonHash(data) ==
    LET hash == PearsonLoop(Len(data) % 256, data, Len(data))
    IN  IF hash = 0 THEN 1 ELSE hash

\* ------------------------------------------------------------------------
\* KVSlot: one persistent slot.  kv is the payload pointer (FALSE = null);
\* ph, ks, vs are the header fields of the payload, kbuf and vbuf the key
\* and value bytes stored behind the header.
\* ------------------------------------------------------------------------
NullSlot == [kv |-> FALSE, ph |-> 0, ks |-> 0, vs |-> 0, kbuf |-> <<>>, vbuf |-> <<>>]

KVSlot_empty(s) == ~s.kv
KVSlot_hash(s) == s.ph
\* key() with get_ks(): the first ks bytes of the key area
KVSlot_key(s) == SubSeq(s.kbuf, 1, s.ks)
\* val() with get_vs()
KVSlot_val(s) == SubSeq(s.vbuf, 1, s.vs)

\* the sizes are stored as uint32_t; every string of the model is far
\* shorter than 2^32 bytes, so the casts change nothing
KVSlot_set(hash, key, value) ==
    [kv |-> TRUE, ph |-> hash, ks |-> Len(key), vs |-> Len(value),
     kbuf |-> key, vbuf |-> value]

\* a clear that zeroes the key size before the hash
KVSlot_clear_direct_ks_first(s, n) ==
    IF ~s.kv THEN s
    ELSE [s EXCEPT !.ks = IF n >= 1 THEN 0 ELSE @,
                   !.ph = IF n >= 2 THEN 0 ELSE @,
                   !.vs = IF n >= 3 THEN 0 ELSE @]

\* the first n of the three direct header writes of KVSlot::clear
\* (set_ph_direct, set_ks_direct, set_vs_direct); they are plain stores
\* into the payload, not snapshotted by the transaction
KVSlot_clear_direct(s, n) ==
    IF ~s.kv THEN s
    ELSE [s EXCEPT !.ph = IF n >= 1 THEN 0 ELSE @,
                   !.ks = IF n >= 2 THEN 0 ELSE @,
                   !.vs = IF n >= 3 THEN 0 ELSE @]

\* the whole of KVSlot::clear, committed
KVSlot_clear(s) == NullSlot

\* a live slot for readers: payload allocated and stored hash not 0
SlotLive(s) == ~KVSlot_empty(s) /\ KVSlot_hash(s) # 0

\* ------------------------------------------------------------------------
\* Persistent pool: pmpool.head is KVRoot::head, pmpool.leaf[l] the KVLeaf
\* with identifier l
\* ------------------------------------------------------------------------
NewKVLeaf == [slots |-> [s \in Slots |-> NullSlot], next |-> NULL]
EmptyPool == [head |-> NULL, leaf |-> <<>>]

RECURSIVE LeafList(_, _)
LeafList(pool, l) ==
    IF l = NULL THEN <<>> ELSE <<l>> \o LeafList(pool, pool.leaf[l].next)

\* a new head leaf whose next is not set to the old head
AllocLeafAtHead_next_unset(pool) ==
    [head |-> Len(pool.leaf) + 1, leaf |-> Append(pool.leaf, NewKVLeaf)]

\* make_persistent<KVLeaf>() linked in at root->head
AllocLeafAtHead(pool) ==
    LET new_leaf == Len(pool.leaf) + 1
    IN  [head |-> new_leaf,
         leaf |-> Append(pool.leaf, [NewKVLeaf EXCEPT !.next = pool.head])]

\* ------------------------------------------------------------------------
\* Volatile nodes.  One record shape serves KVLeafNode and KVInnerNode;
\* keys is KVLeafNode::keys (0..LEAF_KEYS-1) or KVInnerNode::keys
\* (0..INNER_KEYS).
\* ------------------------------------------------------------------------
NewKVLeafNode ==
    [is_leaf |-> TRUE, parent |-> NULL, keycount |-> 0,
     keys |-> [s \in Slots |-> <<>>],
     children |-> [i \in 0..(INNER_KEYS + 1) |-> NULL],
     hashes |-> [s \in Slots |-> 0], leaf |-> NULL]

NewKVInnerNode ==
    [is_leaf |-> FALSE, parent |-> NULL, keycount |-> 0,
     keys |-> [i \in 0..INNER_KEYS |-> <<>>],
     children |-> [i \in 0..(INNER_KEYS + 1) |-> NULL],
     hashes |-> [s \in Slots |-> 0], leaf |-> NULL]

\* address of a freshly allocated volatile node
NewId(nd) == CHOOSE i \in 1..(Cardinality(DOMAIN nd) + 1) : i \notin DOMAIN nd

Min(S) == CHOOSE x \in S : \A y \in S : x <= y
Max(S) == CHOOSE x \in S : \A y \in S : x >= y

\* ------------------------------------------------------------------------
\* The engine state handled by the operations below:
\*   E.pmpool, E.tree_top, E.nodes, E.leaves_prealloc
\* ------------------------------------------------------------------------
Engine(pool, top, nd, prealloc) ==
    [pmpool |-> pool, tree_top |-> top, nodes |-> nd, leaves_prealloc |-> prealloc]

\* tree3::LeafSearch: the leaf node a key is routed to (NULL: no tree)
RECURSIVE LeafSearchFrom(_, _, _)
LeafSearchFrom(nd, node, key) ==
    IF nd[node].is_leaf THEN node
    ELSE LET inner == nd[node]
             keycount == inner.keycount
             matched == {idx \in 0..(keycount - 1) : Compare(key, inner.keys[idx]) <= 0}
         IN  LeafSearchFrom(nd,
                            IF matched # {} THEN inner.children[Min(matched)]
                            ELSE inner.children[keycount],
                            key)

LeafSearch(E, key) ==
    IF E.tree_top = NULL THEN NULL ELSE LeafSearchFrom(E.nodes, E.tree_top, key)

\* the descending scan of get / exists / remove: the first slot, from
\* LEAF_KEYS-1 down, whose hash and key both match (-1: none)
MatchSlot(leafnode, hash, key) ==
    LET hit == {slot \in Slots : leafnode.hashes[slot] = hash
                                 /\ Compare(leafnode.keys[slot], key) = 0}
    IN  IF hit = {} THEN -1 ELSE Max(hit)

\* tree3::exists
Exists(E, key) ==
    LET leafnode == LeafSearch(E, key)
    IN  IF leafnode # NULL /\ MatchSlot(E.nodes[leafnode], PearsonHash(key), key) >= 0
        THEN "OK" ELSE "NOT_FOUND"

\* tree3::get: the status and the value handed to the callback
Get(E, key) ==
    LET leafnode == LeafSearch(E, key)
        slot == IF leafnode = NULL THEN -1
                ELSE MatchSlot(E.nodes[leafnode], PearsonHash(key), key)
    IN  IF slot >= 0
        THEN [status |-> "OK",
              value |-> KVSlot_val(E.pmpool.leaf[E.nodes[leafnode].leaf].slots[slot])]
        ELSE [status |-> "NOT_FOUND", value |-> <<>>]

\* a get whose loop goes on after a match instead of returning
RECURSIVE GetScan_no_return(_, _, _, _, _)
GetScan_no_return(E, leafnode, hash, key, slot) ==
    IF slot < 0 THEN [status |-> "NOT_FOUND", calls |-> <<>>]
    ELSE LET rest == GetScan_no_return(E, leafnode, hash, key, slot - 1)
         IN  IF E.nodes[leafnode].hashes[slot] = hash
                /\ Compare(E.nodes[leafnode].keys[slot], key) = 0
             THEN [rest EXCEPT !.calls =
                     <<KVSlot_val(E.pmpool.leaf[E.nodes[leafnode].leaf].slots[slot])>> \o @]
             ELSE rest

\* the loop of tree3::get from slot down to 0: the status returned and
\* the values the callback was invoked with
RECURSIVE GetScan(_, _, _, _, _)
GetScan(E, leafnode, hash, key, slot) ==
    IF slot < 0 THEN [status |-> "NOT_FOUND", calls |-> <<>>]
    ELSE IF E.nodes[leafnode].hashes[slot] = hash
            /\ Compare(E.nodes[leafnode].keys[slot], key) = 0
         THEN [status |-> "OK",
               calls |-> <<KVSlot_val(E.pmpool.leaf[E.nodes[leafnode].leaf].slots[slot])>>]
    ELSE GetScan(E, leafnode, hash, key, slot - 1)

\* tree3::get with its callback
GetCallback(E, key) ==
    LET leafnode == LeafSearch(E, key)
    IN  IF leafnode = NULL THEN [status |-> "NOT_FOUND", calls |-> <<>>]
        ELSE GetScan(E, leafnode, PearsonHash(key), key, LEAF_KEYS - 1)

\* the slots visited by all / each / count: every leaf of the list from
\* root->head, slots from LEAF_KEYS-1 down, skipping empty and hash-0 slots
RECURSIVE LiveSlotsOfLeaf(_, _)
LiveSlotsOfLeaf(leaf, slot) ==
    IF slot < 0 THEN <<>>
    ELSE (IF SlotLive(leaf.slots[slot]) THEN <<leaf.slots[slot]>> ELSE <<>>)
         \o LiveSlotsOfLeaf(leaf, slot - 1)

RECURSIVE Visit(_, _)
Visit(pool, l) ==
    IF l = NULL THEN <<>>
    ELSE LiveSlotsOfLeaf(pool.leaf[l], LEAF_KEYS - 1) \o Visit(pool, pool.leaf[l].next)

\* tree3::count
Count(E) == Len(Visit(E.pmpool, E.pmpool.head))

\* tree3::each: the (key, value) pairs passed to the callback, in order
Each(E) ==
    LET v == Visit(E.pmpool, E.pmpool.head)
    IN  [i \in 1..Len(v) |-> <<KVSlot_key(v[i]), KVSlot_val(v[i])>>]

\* tree3::all: the keys passed to the callback, in order
All(E) ==
    LET v == Visit(E.pmpool, E.pmpool.head)
    IN  [i \in 1..Len(v) |-> KVSlot_key(v[i])]

\* ------------------------------------------------------------------------
\* Leaf fills
\* ------------------------------------------------------------------------
\* tree3::LeafFillSpecificSlot: the persistent slot, then the mirror
LeafFillSpecificSlot(E, leafnode, hash, key, value, slot) ==
    LET leaf == E.nodes[leafnode].leaf
    IN  [E EXCEPT !.pmpool.leaf[leaf].slots[slot] = KVSlot_set(hash, key, value),
                  !.nodes[leafnode].hashes[slot] = hash,
                  !.nodes[leafnode].keys[slot] = key]

\* tree3::LeafFillEmptySlot: the highest slot whose mirrored hash is 0
LeafFillEmptySlot(E, leafnode, hash, key, value) ==
    LET free == {slot \in Slots : E.nodes[leafnode].hashes[slot] = 0}
    IN  IF free = {} THEN E
        ELSE LeafFillSpecificSlot(E, leafnode, hash, key, value, Max(free))

\* the slot LeafFillSlotForKey picks: the matching slot if the descending
\* scan meets one, else the last empty slot seen (the lowest), else -1
RECURSIVE ScanForKey(_, _, _, _, _)
ScanForKey(leafnode, hash, key, slot, last_empty_slot) ==
    IF slot < 0 THEN last_empty_slot
    ELSE IF leafnode.hashes[slot] = 0
         THEN ScanForKey(leafnode, hash, key, slot - 1, slot)
    ELSE IF leafnode.hashes[slot] = hash /\ Compare(leafnode.keys[slot], key) = 0
         THEN slot
    ELSE ScanForKey(leafnode, hash, key, slot - 1, last_empty_slot)

SlotForKey(leafnode, hash, key) == ScanForKey(leafnode, hash, key, LEAF_KEYS - 1, -1)

\* ------------------------------------------------------------------------
\* tree3::InnerUpdateAfterSplit(node, new_node, split_key): new_node is
\* already allocated in E.nodes, with the parent its creator gave it
\* ------------------------------------------------------------------------
\* lines 428..440: split_key and new_node inserted into inner in key order
InnerInsert(inner, new_node, split_key) ==
    LET keycount == inner.keycount
        idx == Min({i \in 0..keycount :
                      i = keycount \/ ~(Compare(inner.keys[i], split_key) <= 0)})
    IN  [inner EXCEPT
           !.keys = [i \in 0..INNER_KEYS |->
                       IF i = idx THEN split_key
                       ELSE IF i > idx /\ i <= keycount THEN inner.keys[i - 1]
                       ELSE inner.keys[i]],
           !.children = [i \in 0..(INNER_KEYS + 1) |->
                       IF i = idx + 1 THEN new_node
                       ELSE IF i > idx + 1 /\ i <= keycount + 1 THEN inner.children[i - 1]
                       ELSE inner.children[i]],
           !.keycount = (keycount + 1) % 256]

\* a lower half whose upper children are copied instead of moved
InnerLowerHalf_children_kept(inner) ==
    [inner EXCEPT !.keycount = INNER_KEYS_MIDPOINT]

\* lines 450..464: the node that keeps the lower half (moved-from strings
\* are left empty, moved-from children null)
InnerLowerHalf(inner) ==
    LET keycount == inner.keycount
    IN  [inner EXCEPT
           !.keys = [i \in 0..INNER_KEYS |->
                       IF i >= INNER_KEYS_UPPER /\ i < keycount THEN <<>> ELSE inner.keys[i]],
           !.children = [i \in 0..(INNER_KEYS + 1) |->
                       IF i >= INNER_KEYS_UPPER /\ i < keycount + 1 THEN NULL
                       ELSE inner.children[i]],
           !.keycount = INNER_KEYS_MIDPOINT]

\* an upper half that starts at the midpoint key instead of above it
InnerUpperHalf_from_midpoint(inner) ==
    LET keycount == inner.keycount
    IN  [NewKVInnerNode EXCEPT
           !.parent = inner.parent,
           !.keys = [i \in 0..INNER_KEYS |->
                       IF i + INNER_KEYS_MIDPOINT < keycount
                       THEN inner.keys[i + INNER_KEYS_MIDPOINT] ELSE <<>>],
           !.children = [i \in 0..(INNER_KEYS + 1) |->
                       IF i + INNER_KEYS_UPPER < keycount + 1
                       THEN inner.children[i + INNER_KEYS_UPPER] ELSE NULL],
           !.keycount = INNER_KEYS_MIDPOINT]

\* lines 450..461: the new inner node ni that receives the upper half
InnerUpperHalf(inner) ==
    LET keycount == inner.keycount
    IN  [NewKVInnerNode EXCEPT
           !.parent = inner.parent,
           !.keys = [i \in 0..INNER_KEYS |->
                       IF i + INNER_KEYS_UPPER < keycount
                       THEN inner.keys[i + INNER_KEYS_UPPER] ELSE <<>>],
           !.children = [i \in 0..(INNER_KEYS + 1) |->
                       IF i + INNER_KEYS_UPPER < keycount + 1
                       THEN inner.children[i + INNER_KEYS_UPPER] ELSE NULL],
           !.keycount = INNER_KEYS_MIDPOINT]

RECURSIVE InnerUpdateAfterSplit(_, _, _, _)
InnerUpdateAfterSplit(E, node, new_node, split_key) ==
    IF E.nodes[node].parent = NULL
    THEN \* lines 409..424: a new top node above tree_top and new_node
         LET top == NewId(E.nodes)
             topnode == [NewKVInnerNode EXCEPT
                           !.keycount = 1,
                           !.keys[0] = split_key,
                           !.children[0] = E.tree_top,
                           !.children[1] = new_node]
         IN  [E EXCEPT
                !.nodes = [E.nodes EXCEPT ![node].parent = top,
                                          ![new_node].parent = top] @@ (top :> topnode),
                !.tree_top = top]
    ELSE LET inner == E.nodes[node].parent
             inserted == InnerInsert(E.nodes[inner], new_node, split_key)
         IN  IF inserted.keycount <= INNER_KEYS
             THEN [E EXCEPT !.nodes[inner] = inserted]
             ELSE \* lines 449..472: split inner at the midpoint and recurse
                  LET ni == NewId(E.nodes)
                      upper == InnerUpperHalf(inserted)
                      moved == {upper.children[i] :
                                  i \in 0..(inserted.keycount - INNER_KEYS_UPPER)}
                      new_split_key == inserted.keys[INNER_KEYS_MIDPOINT]
                      nd1 == [n \in DOMAIN E.nodes |->
                                IF n = inner THEN InnerLowerHalf(inserted)
                                ELSE IF n \in moved THEN [E.nodes[n] EXCEPT !.parent = ni]
                                ELSE E.nodes[n]] @@ (ni :> upper)
                  IN  InnerUpdateAfterSplit([E EXCEPT !.nodes = nd1], inner, ni,
                                            new_split_key)

\* ------------------------------------------------------------------------
\* std::sort of the keys of a leaf split, smallest first
\* ------------------------------------------------------------------------
RECURSIVE InsertSorted(_, _)
InsertSorted(sorted, key) ==
    IF sorted = <<>> THEN <<key>>
    ELSE IF Compare(key, Head(sorted)) < 0 THEN <<key>> \o sorted
    ELSE <<Head(sorted)>> \o InsertSorted(Tail(sorted), key)

RECURSIVE SortKeys(_)
SortKeys(keys) ==
    IF keys = <<>> THEN <<>> ELSE InsertSorted(SortKeys(Tail(keys)), Head(keys))

\* lines 360..368: the split key of a full leaf that receives key
SplitKey(leafnode, key) ==
    SortKeys([i \in 1..(LEAF_KEYS + 1) |->
                IF i <= LEAF_KEYS THEN leafnode.keys[i - 1] ELSE key])[LEAF_KEYS_MIDPOINT + 1]

\* ------------------------------------------------------------------------
\* Pool transactions.  A fault names the place where transaction::run
\* throws (allocation failure, log failure):
\*   none   the transaction commits
\*   begin  before the body has changed anything
\*   swap   in LeafSplitFull, at the swap of slot fault.slot
\*   set    in KVSlot::set (the payload allocation)
\*   free   in KVSlot::clear, at delete_persistent
\* On abort the pool returns to its state at the start of the transaction,
\* except for stores that were not added to the transaction.
\* ------------------------------------------------------------------------
Fault(at, slot) == [at |-> at, slot |-> slot]
NoFault == Fault("none", 0)
PutFaults ==
    {NoFault, Fault("begin", 0), Fault("set", 0)} \cup {Fault("swap", s) : s \in Slots}
RemoveFaults == {NoFault, Fault("begin", 0), Fault("free", 0)}

\* result of an operation: engine state, status, the branch of the
\* operation that ran, and whether the fault can happen on that branch
Result(E, status, path, possible) ==
    [E |-> E, status |-> status, path |-> path, possible |-> possible]

\* a leaf taken from leaves_prealloc without the pop_back
TakeLeaf_not_popped(E) ==
    IF E.leaves_prealloc # <<>>
    THEN [E |-> E, new_leaf |-> E.leaves_prealloc[Len(E.leaves_prealloc)]]
    ELSE [E |-> [E EXCEPT !.pmpool = AllocLeafAtHead(@)],
          new_leaf |-> Len(E.pmpool.leaf) + 1]

\* a new leaf allocated at root->head whatever leaves_prealloc holds
TakeLeaf_always_allocates(E) ==
    [E |-> [E EXCEPT !.pmpool = AllocLeafAtHead(@)],
     new_leaf |-> Len(E.pmpool.leaf) + 1]

\* lines 376..388 (and 200..210): the persistent leaf for a new leaf node,
\* taken from leaves_prealloc or allocated at root->head
TakeLeaf(E) ==
    IF E.leaves_prealloc # <<>>
    THEN [E |-> [E EXCEPT !.leaves_prealloc = SubSeq(@, 1, Len(@) - 1)],
          new_leaf |-> E.leaves_prealloc[Len(E.leaves_prealloc)]]
    ELSE [E |-> [E EXCEPT !.pmpool = AllocLeafAtHead(@)],
          new_leaf |-> Len(E.pmpool.leaf) + 1]

\* lines 389..397: one round of the split loop for a slot that moves
MoveSlot(E, leafnode, new_leafnode, slot) ==
    LET leaf == E.nodes[leafnode].leaf
        new_leaf == E.nodes[new_leafnode].leaf
    IN  [E EXCEPT
           !.pmpool.leaf[new_leaf].slots[slot] = E.pmpool.leaf[leaf].slots[slot],
           !.pmpool.leaf[leaf].slots[slot] = E.pmpool.leaf[new_leaf].slots[slot],
           !.nodes[new_leafnode].hashes[slot] = E.nodes[leafnode].hashes[slot],
           !.nodes[new_leafnode].keys[slot] = E.nodes[leafnode].keys[slot],
           !.nodes[leafnode].hashes[slot] = 0,
           !.nodes[leafnode].keys[slot] = <<>>]

\* the split loop from slot down to stop + 1
RECURSIVE MoveSlots(_, _, _, _, _, _)
MoveSlots(E, leafnode, new_leafnode, split_key, slot, stop) ==
    IF slot <= stop THEN E
    ELSE MoveSlots(IF Compare(E.nodes[leafnode].keys[slot], split_key) > 0
                   THEN MoveSlot(E, leafnode, new_leafnode, slot)
                   ELSE E,
                   leafnode, new_leafnode, split_key, slot - 1, stop)

\* what an aborted split leaves behind: the pool as it was, the new leaf
\* node destroyed, and everything else as the body left it
SplitAborted(E, body, new_leafnode) ==
    [body EXCEPT !.pmpool = E.pmpool,
                 !.nodes = [n \in DOMAIN E.nodes |-> body.nodes[n]]]

\* line 398: the leaf node that receives the new key of a split
SplitTarget(key, split_key, leafnode, new_leafnode) ==
    IF Compare(key, split_key) > 0 THEN new_leafnode ELSE leafnode

\* lines 372..397 of LeafSplitFull: the engine after the loop that moves
\* the slots and before the new key is stored (line 399)
SplitLoop(E, leafnode, key) ==
    LET split_key == SplitKey(E.nodes[leafnode], key)
        new_leafnode == NewId(E.nodes)
        taken == TakeLeaf(E)
        E1 == [taken.E EXCEPT
                 !.nodes = @ @@ (new_leafnode :>
                              [NewKVLeafNode EXCEPT !.parent = E.nodes[leafnode].parent,
                                                    !.leaf = taken.new_leaf])]
    IN  MoveSlots(E1, leafnode, new_leafnode, split_key, LEAF_KEYS - 1, -1)

\* a split whose new leaf node is not given the parent of the leaf node
LeafSplitFull_parent_unset(E, leafnode, hash, key, value, fault) ==
    LET split_key == SplitKey(E.nodes[leafnode], key)
        new_leafnode == NewId(E.nodes)
        taken == TakeLeaf(E)
        E1 == [taken.E EXCEPT
                 !.nodes = @ @@ (new_leafnode :>
                              [NewKVLeafNode EXCEPT !.leaf = taken.new_leaf])]
        E2 == MoveSlots(E1, leafnode, new_leafnode, split_key, LEAF_KEYS - 1, -1)
        target == SplitTarget(key, split_key, leafnode, new_leafnode)
        E3 == LeafFillEmptySlot(E2, target, hash, key, value)
    IN  CASE fault.at = "none" ->
               Result(InnerUpdateAfterSplit(E3, leafnode, new_leafnode, split_key),
                      "OK", "split", TRUE)
          [] fault.at = "begin" -> Result(E, "FAILED", "split", TRUE)
          [] fault.at = "swap" ->
               Result(SplitAborted(E, MoveSlots(E1, leafnode, new_leafnode, split_key,
                                                LEAF_KEYS - 1, fault.slot),
                                   new_leafnode),
                      "FAILED", "split",
                      Compare(E.nodes[leafnode].keys[fault.slot], split_key) > 0)
          [] fault.at = "set" -> Result(SplitAborted(E, E2, new_leafnode), "FAILED", "split", TRUE)
          [] OTHER -> Result(E, "FAILED", "split", FALSE)

\* a split that updates the parents inside the transaction body, before
\* the new key is stored
LeafSplitFull_parents_first(E, leafnode, hash, key, value, fault) ==
    LET split_key == SplitKey(E.nodes[leafnode], key)
        new_leafnode == NewId(E.nodes)
        taken == TakeLeaf(E)
        E1 == [taken.E EXCEPT
                 !.nodes = @ @@ (new_leafnode :>
                              [NewKVLeafNode EXCEPT !.parent = E.nodes[leafnode].parent,
                                                    !.leaf = taken.new_leaf])]
        E2 == MoveSlots(E1, leafnode, new_leafnode, split_key, LEAF_KEYS - 1, -1)
        target == SplitTarget(key, split_key, leafnode, new_leafnode)
        E3 == LeafFillEmptySlot(E2, target, hash, key, value)
    IN  CASE fault.at = "none" ->
               Result(InnerUpdateAfterSplit(E3, leafnode, new_leafnode, split_key),
                      "OK", "split", TRUE)
          [] fault.at = "begin" -> Result(E, "FAILED", "split", TRUE)
          [] fault.at = "swap" ->
               Result(SplitAborted(E, MoveSlots(E1, leafnode, new_leafnode, split_key,
                                                LEAF_KEYS - 1, fault.slot),
                                   new_leafnode),
                      "FAILED", "split",
                      Compare(E.nodes[leafnode].keys[fault.slot], split_key) > 0)
          [] fault.at = "set" ->
               Result([InnerUpdateAfterSplit(E2, leafnode, new_leafnode, split_key)
                         EXCEPT !.pmpool = E.pmpool],
                      "FAILED", "split", TRUE)
          [] OTHER -> Result(E, "FAILED", "split", FALSE)

\* tree3::LeafSplitFull
LeafSplitFull(E, leafnode, hash, key, value, fault) ==
    LET split_key == SplitKey(E.nodes[leafnode], key)
        new_leafnode == NewId(E.nodes)
        taken == TakeLeaf(E)
        E1 == [taken.E EXCEPT
                 !.nodes = @ @@ (new_leafnode :>
                              [NewKVLeafNode EXCEPT !.parent = E.nodes[leafnode].parent,
                                                    !.leaf = taken.new_leaf])]
        E2 == MoveSlots(E1, leafnode, new_leafnode, split_key, LEAF_KEYS - 1, -1)
        target == SplitTarget(key, split_key, leafnode, new_leafnode)
        E3 == LeafFillEmptySlot(E2, target, hash, key, value)
    IN  CASE fault.at = "none" ->
               Result(InnerUpdateAfterSplit(E3, leafnode, new_leafnode, split_key),
                      "OK", "split", TRUE)
          [] fault.at = "begin" -> Result(E, "FAILED", "split", TRUE)
          [] fault.at = "swap" ->
               Result(SplitAborted(E, MoveSlots(E1, leafnode, new_leafnode, split_key,
                                                LEAF_KEYS - 1, fault.slot),
                                   new_leafnode),
                      "FAILED", "split",
                      Compare(E.nodes[leafnode].keys[fault.slot], split_key) > 0)
          [] fault.at = "set" -> Result(SplitAborted(E, E2, new_leafnode), "FAILED", "split", TRUE)
          [] OTHER -> Result(E, "FAILED", "split", FALSE)

\* tree3::put, first branch (lines 195..216): no leaf node yet
PutHeadLeaf(E, hash, key, value, fault) ==
    LET new_node == NewId(E.nodes)
        taken == TakeLeaf(E)
        E1 == [taken.E EXCEPT
                 !.nodes = @ @@ (new_node :> [NewKVLeafNode EXCEPT !.leaf = taken.new_leaf])]
        E2 == LeafFillSpecificSlot(E1, new_node, hash, key, value, 0)
    IN  CASE fault.at = "none" -> Result([E2 EXCEPT !.tree_top = new_node], "OK", "head", TRUE)
          [] fault.at = "begin" -> Result(E, "FAILED", "head", TRUE)
          [] fault.at = "set" ->
               Result([E EXCEPT !.leaves_prealloc = taken.E.leaves_prealloc],
                      "FAILED", "head", TRUE)
          [] OTHER -> Result(E, "FAILED", "head", FALSE)

\* tree3::LeafFillSlotForKey with a slot found (lines 338..345)
PutFillSlot(E, leafnode, hash, key, value, slot, fault) ==
    CASE fault.at = "none" ->
           Result(LeafFillSpecificSlot(E, leafnode, hash, key, value, slot), "OK", "fill", TRUE)
      \* a failure before the body leaves the same state as one in KVSlot::set
      [] fault.at = "set" -> Result(E, "FAILED", "fill", TRUE)
      [] OTHER -> Result(E, "FAILED", "fill", FALSE)

\* tree3::put
Put(E, key, value, fault) ==
    LET hash == PearsonHash(key)
        leafnode == LeafSearch(E, key)
    IN  IF leafnode = NULL THEN PutHeadLeaf(E, hash, key, value, fault)
        ELSE LET slot == SlotForKey(E.nodes[leafnode], hash, key)
             IN  IF slot >= 0 THEN PutFillSlot(E, leafnode, hash, key, value, slot, fault)
                 ELSE LeafSplitFull(E, leafnode, hash, key, value, fault)

\* a remove that resets the whole mirror of the leaf node it found the key in
Remove_mirror_reset(E, key, fault) ==
    LET leafnode == LeafSearch(E, key)
        slot == IF leafnode = NULL THEN -1
                ELSE MatchSlot(E.nodes[leafnode], PearsonHash(key), key)
    IN  IF slot < 0 THEN Result(E, "NOT_FOUND", "missing", fault.at = "none")
        ELSE LET leaf == E.nodes[leafnode].leaf
                 E1 == [E EXCEPT !.nodes[leafnode].hashes = [s \in Slots |-> 0],
                                 !.nodes[leafnode].keys = [s \in Slots |-> <<>>]]
             IN  CASE fault.at = "none" ->
                        Result([E1 EXCEPT !.pmpool.leaf[leaf].slots[slot] =
                                              KVSlot_clear(@)], "OK", "found", TRUE)
                   [] fault.at = "begin" -> Result(E1, "FAILED", "found", TRUE)
                   [] fault.at = "free" ->
                        Result([E1 EXCEPT !.pmpool.leaf[leaf].slots[slot] =
                                              KVSlot_clear_direct(@, 3)], "FAILED", "found",
                               ~KVSlot_empty(E.pmpool.leaf[leaf].slots[slot]))
                   [] OTHER -> Result(E, "FAILED", "found", FALSE)

\* tree3::remove
Remove(E, key, fault) ==
    LET leafnode == LeafSearch(E, key)
        slot == IF leafnode = NULL THEN -1
                ELSE MatchSlot(E.nodes[leafnode], PearsonHash(key), key)
    IN  IF slot < 0 THEN Result(E, "NOT_FOUND", "missing", fault.at = "none")
        ELSE LET leaf == E.nodes[leafnode].leaf
                 \* lines 255..256, before the transaction starts
                 E1 == [E EXCEPT !.nodes[leafnode].hashes[slot] = 0,
                                 !.nodes[leafnode].keys[slot] = <<>>]
             IN  CASE fault.at = "none" ->
                        Result([E1 EXCEPT !.pmpool.leaf[leaf].slots[slot] =
                                              KVSlot_clear(@)], "OK", "found", TRUE)
                   [] fault.at = "begin" -> Result(E1, "FAILED", "found", TRUE)
                   [] fault.at = "free" ->
                        Result([E1 EXCEPT !.pmpool.leaf[leaf].slots[slot] =
                                              KVSlot_clear_direct(@, 3)], "FAILED", "found",
                               ~KVSlot_empty(E.pmpool.leaf[leaf].slots[slot]))
                   [] OTHER -> Result(E, "FAILED", "found", FALSE)

\* ------------------------------------------------------------------------
\* tree3::Recover
\* ------------------------------------------------------------------------
\* a scan that does not skip the slots whose stored hash is 0
RECURSIVE RecoverSlots_hash_unchecked(_, _, _)
RecoverSlots_hash_unchecked(leaf, slot, acc) ==
    IF slot < 0 THEN acc
    ELSE LET kvslot == leaf.slots[slot]
         IN  IF KVSlot_empty(kvslot) THEN RecoverSlots_hash_unchecked(leaf, slot - 1, acc)
             ELSE RecoverSlots_hash_unchecked(leaf, slot - 1,
                    [leafnode |-> [acc.leafnode EXCEPT
                                     !.hashes[slot] = KVSlot_hash(kvslot),
                                     !.keys[slot] = KVSlot_key(kvslot)],
                     empty_leaf |-> FALSE,
                     max_key |-> IF acc.empty_leaf
                                    \/ Compare(acc.max_key, KVSlot_key(kvslot)) < 0
                                 THEN KVSlot_key(kvslot) ELSE acc.max_key])

\* lines 491..510, one leaf: the scan from slot down to 0, carrying the
\* leaf node built so far, empty_leaf and max_key
RECURSIVE RecoverSlots(_, _, _)
RecoverSlots(leaf, slot, acc) ==
    IF slot < 0 THEN acc
    ELSE LET kvslot == leaf.slots[slot]
         IN  IF KVSlot_empty(kvslot) THEN RecoverSlots(leaf, slot - 1, acc)
             ELSE IF KVSlot_hash(kvslot) = 0
                  THEN RecoverSlots(leaf, slot - 1,
                                    [acc EXCEPT !.leafnode.hashes[slot] = 0])
             ELSE RecoverSlots(leaf, slot - 1,
                    [leafnode |-> [acc.leafnode EXCEPT
                                     !.hashes[slot] = KVSlot_hash(kvslot),
                                     !.keys[slot] = KVSlot_key(kvslot)],
                     empty_leaf |-> FALSE,
                     max_key |-> IF acc.empty_leaf
                                    \/ Compare(acc.max_key, KVSlot_key(kvslot)) < 0
                                 THEN KVSlot_key(kvslot) ELSE acc.max_key])

RecoverLeaf(pool, l) ==
    RecoverSlots(pool.leaf[l], LEAF_KEYS - 1,
                 [leafnode |-> [NewKVLeafNode EXCEPT !.leaf = l],
                  empty_leaf |-> TRUE, max_key |-> <<>>])

\* std::list::sort by max_key: stable, ascending
RECURSIVE InsertRecovered(_, _)
InsertRecovered(sorted, r) ==
    IF sorted = <<>> THEN <<r>>
    ELSE IF Compare(r.max_key, Head(sorted).max_key) < 0 THEN <<r>> \o sorted
    ELSE <<Head(sorted)>> \o InsertRecovered(Tail(sorted), r)

RECURSIVE SortRecovered(_)
SortRecovered(leaves) ==
    IF leaves = <<>> THEN <<>>
    ELSE InsertRecovered(SortRecovered(SubSeq(leaves, 1, Len(leaves) - 1)),
                         leaves[Len(leaves)])

\* a link loop that does not give nextnode the parent of prevnode
RECURSIVE RecoverLink_parent_unset(_, _, _, _)
RecoverLink_parent_unset(E, prevnode, max_key, leaves) ==
    IF leaves = <<>> THEN E
    ELSE LET nextnode == Head(leaves).leafnode
         IN  RecoverLink_parent_unset(InnerUpdateAfterSplit(E, prevnode, nextnode, max_key),
                                      nextnode, Head(leaves).max_key, Tail(leaves))

\* lines 535..545: the remaining recovered leaves are hung into the tree,
\* each next to its predecessor
RECURSIVE RecoverLink(_, _, _, _)
RecoverLink(E, prevnode, max_key, leaves) ==
    IF leaves = <<>> THEN E
    ELSE LET nextnode == Head(leaves).leafnode
             E1 == [E EXCEPT !.nodes[nextnode].parent = E.nodes[prevnode].parent]
         IN  RecoverLink(InnerUpdateAfterSplit(E1, prevnode, nextnode, max_key),
                         nextnode, Head(leaves).max_key, Tail(leaves))

\* Recover() on a newly constructed engine (leaves_prealloc and tree_top
\* empty).  Leaf nodes get their addresses in the order of the leaf list.
Recover(pool) ==
    LET list == LeafList(pool, pool.head)
        rec == [i \in 1..Len(list) |-> RecoverLeaf(pool, list[i])]
        kept == SelectSeq([i \in 1..Len(list) |-> i], LAMBDA i : ~rec[i].empty_leaf)
        prealloc == SelectSeq(list, LAMBDA l : RecoverLeaf(pool, l).empty_leaf)
        nd == [n \in 1..Len(kept) |-> rec[kept[n]].leafnode]
        leaves == SortRecovered([n \in 1..Len(kept) |->
                                   [leafnode |-> n, max_key |-> rec[kept[n]].max_key]])
    IN  IF leaves = <<>> THEN Engine(pool, NULL, nd, prealloc)
        ELSE RecoverLink(Engine(pool, Head(leaves).leafnode, nd, prealloc),
                         Head(leaves).leafnode, Head(leaves).max_key, Tail(leaves))

\* the state a crash inside a remove leaves in the pool: the transaction
\* is rolled back on reopening, but the first n direct header writes of
\* KVSlot::clear may have reached the medium
RemoveCrashed(E, key, n) ==
    LET leafnode == LeafSearch(E, key)
        slot == IF leafnode = NULL THEN -1
                ELSE MatchSlot(E.nodes[leafnode], PearsonHash(key), key)
    IN  IF slot < 0 THEN E.pmpool
        ELSE [E.pmpool EXCEPT !.leaf[E.nodes[leafnode].leaf].slots[slot] =
                                  KVSlot_clear_direct(@, n)]

\* ------------------------------------------------------------------------
\* The state machine
\* ------------------------------------------------------------------------
Now == Engine(pmpool, tree_top, nodes, leaves_prealloc)

Becomes(E) ==
    /\ pmpool' = E.pmpool
    /\ tree_top' = E.tree_top
    /\ nodes' = E.nodes
    /\ leaves_prealloc' = E.leaves_prealloc

\* the pool of an engine that was created empty and then received the
\* first n keys of the sequence ks by put
RECURSIVE Preloaded(_, _)
Preloaded(ks, n) ==
    IF n = 0 THEN Recover(EmptyPool)
    ELSE Put(Preloaded(ks, n - 1), ks[n], <<33>>, NoFault).E

Descending == [i \in 1..Len(KeySeq) |-> KeySeq[Len(KeySeq) + 1 - i]]

\* last: the operation that led to the current state, its arguments, the
\* status it returned, the branch it took, where its transaction failed
\* (or the process died), and the number of volatile nodes it added
Op(op, key, value, status, path, at, grew) ==
    [op |-> op, key |-> key, value |-> value, status |-> status, path |-> path,
     at |-> at, grew |-> grew]
NoOp == Op("open", <<>>, <<>>, "OK", "none", "none", 0)
Grew(E) == Cardinality(DOMAIN E.nodes) - Cardinality(DOMAIN nodes)

\* calls: the arguments of the callback invocations made by the last
\* operation, in order.
\* expect: what the caller has been told so far, the value of the last
\* successful put of every key that was put and not removed since
\* (the std::map a test would keep next to the engine)
Told(E) ==
    LET pairs == Each(E)
    IN  [key \in {pairs[i][1] : i \in DOMAIN pairs} |->
           (CHOOSE i \in DOMAIN pairs : pairs[i][1] = key) ]
Written(E) ==
    LET pairs == Each(E)
        told == Told(E)
    IN  [key \in DOMAIN told |-> pairs[told[key]][2]]
AfterPut(m, key, value, status) ==
    IF status = "OK"
    THEN [k \in DOMAIN m \cup {key} |-> IF k = key THEN value ELSE m[k]]
    ELSE m
AfterRemove(m, key, status) ==
    IF status = "OK" THEN [k \in DOMAIN m \ {key} |-> m[k]] ELSE m

\* hashing: the activation of PearsonHash that is running, if any: pc is
\* its position, data the key, i the loop counter, hash the local variable,
\* signed_char whether char is a signed type in this build, result the
\* value returned
NotHashing ==
    [pc |-> "idle", data |-> <<>>, i |-> 0, hash |-> 0, signed_char |-> FALSE,
     result |-> 0]

\* payload: the activation of KVSlot::set that is running, if any: pc is
\* its position, hash, key and value its arguments, size the local
\* variable, buf the bytes of the buffer kv points to
NoPayload ==
    [pc |-> "idle", hash |-> 0, key |-> <<>>, value |-> <<>>, size |-> 0, buf |-> <<>>]

Starts(E, n) ==
    /\ pmpool = E.pmpool
    /\ tree_top = E.tree_top
    /\ nodes = E.nodes
    /\ leaves_prealloc = E.leaves_prealloc
    /\ budget = n
    /\ last = NoOp
    /\ expect = Written(E)
    /\ calls = <<>>
    /\ hashing = NotHashing
    /\ payload = NoPayload

\* the constructor: a new pool, or a pool that received up to MaxPreload
\* keys in ascending or descending order and, possibly, was reopened
Init ==
    \E n \in 0..MaxPreload : \E ks \in {KeySeq, Descending} : \E reopened \in BOOLEAN :
        LET P == Preloaded(ks, n)
        IN  Starts(IF reopened THEN Recover(P.pmpool) ELSE P, MaxOps)

Spend == budget' = budget - 1

PutOn(K, V) ==
    /\ budget > 0
    /\ \E key \in K : \E value \in V : \E fault \in PutFaults :
          LET r == Put(Now, key, value, fault)
          IN  /\ r.possible
              /\ Becomes(r.E)
              /\ last' = Op("put", key, value, r.status, r.path, fault.at, Grew(r.E))
              /\ expect' = AfterPut(expect, key, value, r.status)
              /\ calls' = <<>>
              /\ UNCHANGED <<hashing, payload>>
              /\ Spend

RemoveOn(K) ==
    /\ budget > 0
    /\ \E key \in K : \E fault \in RemoveFaults :
          LET r == Remove(Now, key, fault)
          IN  /\ r.possible
              /\ Becomes(r.E)
              /\ last' = Op("remove", key, <<>>, r.status, r.path, fault.at, 0)
              /\ expect' = AfterRemove(expect, key, r.status)
              /\ calls' = <<>>
              /\ UNCHANGED <<hashing, payload>>
              /\ Spend

\* close and reopen: a new engine object on the same pool
Restart ==
    /\ budget > 0
    /\ Becomes(Recover(pmpool))
    /\ last' = Op("restart", <<>>, <<>>, "OK", "none", "none", 0)
    /\ UNCHANGED expect
    /\ calls' = <<>>
    /\ UNCHANGED <<hashing, payload>>
    /\ Spend

\* the process dies inside put(key, value), before or after the commit of
\* its transaction, and the pool is reopened
CrashPutOn(K, V) ==
    /\ budget > 0
    /\ \E key \in K : \E value \in V : \E at \in {"begin", "commit"} :
          LET r == Put(Now, key, value, NoFault)
          IN  /\ Becomes(Recover(IF at = "commit" THEN r.E.pmpool ELSE pmpool))
              /\ last' = Op("crash_put", key, value, "CRASHED", r.path, at, 0)
              /\ UNCHANGED expect
              /\ calls' = <<>>
              /\ UNCHANGED <<hashing, payload>>
              /\ Spend

\* the process dies inside remove(key) of a key that is found: before the
\* commit with 0..3 of the direct header writes on the medium, or after it
CrashRemoveOn(K) ==
    /\ budget > 0
    /\ \E key \in K : \E at \in {"begin", "ph", "ks", "vs", "commit"} :
          LET r == Remove(Now, key, NoFault)
              n == CASE at = "ph" -> 1 [] at = "ks" -> 2 [] at = "vs" -> 3 [] OTHER -> 0
          IN  /\ r.status = "OK"
              /\ Becomes(Recover(IF at = "commit" THEN r.E.pmpool
                                 ELSE RemoveCrashed(Now, key, n)))
              /\ last' = Op("crash_remove", key, <<>>, "CRASHED", r.path, at, 0)
              /\ UNCHANGED expect
              /\ calls' = <<>>
              /\ UNCHANGED <<hashing, payload>>
              /\ Spend

\* get(key, callback): reads only
GetOn(K) ==
    /\ budget > 0
    /\ \E key \in K :
          LET g == GetCallback(Now, key)
          IN  /\ UNCHANGED <<pmpool, tree_top, nodes, leaves_prealloc, expect>>
              /\ last' = Op("get", key, <<>>, g.status, "none", "none", 0)
              /\ calls' = g.calls
              /\ UNCHANGED <<hashing, payload>>
              /\ Spend

\* exists(key): reads only
ExistsOn(K) ==
    /\ budget > 0
    /\ \E key \in K :
          /\ UNCHANGED <<pmpool, tree_top, nodes, leaves_prealloc, expect>>
          /\ last' = Op("exists", key, <<>>, Exists(Now, key), "none", "none", 0)
          /\ calls' = <<>>
          /\ UNCHANGED <<hashing, payload>>
          /\ Spend

\* count(cnt): reads only; calls holds the number stored into cnt
CountAct ==
    /\ budget > 0
    /\ UNCHANGED <<pmpool, tree_top, nodes, leaves_prealloc, expect>>
    /\ last' = Op("count", <<>>, <<>>, "OK", "none", "none", 0)
    /\ calls' = <<Count(Now)>>
    /\ UNCHANGED <<hashing, payload>>
    /\ Spend

\* all(callback): reads only; calls holds the keys handed to the callback
AllAct ==
    /\ budget > 0
    /\ UNCHANGED <<pmpool, tree_top, nodes, leaves_prealloc, expect>>
    /\ last' = Op("all", <<>>, <<>>, "OK", "none", "none", 0)
    /\ calls' = All(Now)
    /\ UNCHANGED <<hashing, payload>>
    /\ Spend

\* an each that walks the list by advancing root->head itself
EachAct_head_advanced ==
    /\ budget > 0
    /\ pmpool' = [pmpool EXCEPT !.head = NULL]
    /\ UNCHANGED <<tree_top, nodes, leaves_prealloc, expect>>
    /\ last' = Op("each", <<>>, <<>>, "OK", "none", "none", 0)
    /\ calls' = Each(Now)
    /\ UNCHANGED <<hashing, payload>>
    /\ Spend

\* each(callback): reads only; calls holds the pairs handed to the callback
EachAct ==
    /\ budget > 0
    /\ UNCHANGED <<pmpool, tree_top, nodes, leaves_prealloc, expect>>
    /\ last' = Op("each", <<>>, <<>>, "OK", "none", "none", 0)
    /\ calls' = Each(Now)
    /\ UNCHANGED <<hashing, payload>>
    /\ Spend

PutAct == PutOn(OpKeys, Values)
RemoveAct == RemoveOn(OpKeys)
CrashPut == CrashPutOn(OpKeys, Values)
CrashRemove == CrashRemoveOn(OpKeys)

Next == PutAct \/ RemoveAct \/ Restart

Spec == Init /\ [][Next]_vars

\* the same on pools of at most MaxCrashPreload keys, with the process
\* dying inside the last operation
MaxCrashPreload == 6

InitCrash ==
    \E n \in 0..MaxCrashPreload : \E ks \in {KeySeq, Descending} : \E reopened \in BOOLEAN :
        LET P == Preloaded(ks, n)
        IN  Starts(IF reopened THEN Recover(P.pmpool) ELSE P, MaxOps)

NextCrash == (budget > 1 /\ Next) \/ (budget = 1 /\ (CrashPut \/ CrashRemove))

SpecCrash == InitCrash /\ [][NextCrash]_vars

\* a longer run on a small tree: two keys, one value, a pool that received
\* the first keys of DeepSeq ("", "a", "bh", "c", "d") and then, possibly,
\* a remove of "c"
MaxDeepPreload == 5
MaxDeepOps == 5
DeepSeq == << <<>>, <<97>>, <<98, 104>>, <<99>>, <<100>> >>
DeepKeys == {<<97, 0, 98>>, <<98, 104>>}
DeepValues == {<<>>}

InitDeep ==
    \E n \in 0..Min({MaxDeepPreload, Len(DeepSeq)}) : \E removed \in BOOLEAN :
        LET P == Preloaded(DeepSeq, n)
        IN  Starts(IF removed THEN Remove(P, <<99>>, NoFault).E ELSE P, MaxDeepOps)

PutDeep == PutOn(DeepKeys, DeepValues)
RemoveDeep == RemoveOn(DeepKeys)

NextDeep == PutDeep \/ RemoveDeep \/ Restart

SpecDeep == InitDeep /\ [][NextDeep]_vars

\* the pools of SpecDeep, possibly after a remove("bh") whose transaction
\* failed at its start, a put("bh") and a restart; then operations on
\* "a\0b" and "d"
MaxWornOps == 3
WornKeys == {<<97, 0, 98>>, <<100>>}

Worn(E) ==
    LET failed == Remove(E, <<98, 104>>, Fault("begin", 0)).E
    IN  Recover(Put(failed, <<98, 104>>, <<>>, NoFault).E.pmpool)

InitWorn ==
    \E n \in 0..Min({MaxDeepPreload, Len(DeepSeq)}) :
    \E removed \in BOOLEAN : \E worn \in BOOLEAN :
        LET P == Preloaded(DeepSeq, n)
            R == IF removed THEN Remove(P, <<99>>, NoFault).E ELSE P
        IN  Starts(IF worn THEN Worn(R) ELSE R, MaxWornOps)

PutWorn == PutOn(WornKeys, DeepValues)
RemoveWorn == RemoveOn(WornKeys)

NextWorn == PutWorn \/ RemoveWorn \/ Restart

SpecWorn == InitWorn /\ [][NextWorn]_vars

\* the shape of the tree does not depend on the values: the same pools and
\* operations as Spec, with one value
TreeValues == {<<>>}

PutTree == PutOn(OpKeys, TreeValues)

NextTree == PutTree \/ RemoveAct \/ Restart

SpecTree == Init /\ [][NextTree]_vars

\* put, remove and restart with get calls in between, on pools of at most
\* MaxReadPreload keys
MaxReadPreload == 6

InitRead ==
    \E n \in 0..MaxReadPreload : \E ks \in {KeySeq, Descending} : \E reopened \in BOOLEAN :
        LET P == Preloaded(ks, n)
        IN  Starts(IF reopened THEN Recover(P.pmpool) ELSE P, MaxOps)

GetAct == GetOn(OpKeys)

NextRead == Next \/ GetAct

SpecRead == InitRead /\ [][NextRead]_vars

\* the same with every read operation of the engine
ExistsAct == ExistsOn(OpKeys)

NextReads == NextRead \/ ExistsAct \/ CountAct \/ AllAct \/ EachAct

SpecReads == InitRead /\ [][NextReads]_vars

\* put(key, "") on a new pool with PearsonHash run step by step, for keys
\* of at most MaxHashLen bytes taken from HashBytes
MaxHashLen == 2
HashBytes == {0, 15, 97, 127, 128, 255}

RECURSIVE BytesOfLen(_)
BytesOfLen(n) ==
    IF n = 0 THEN {<<>>}
    ELSE {Append(data, b) : data \in BytesOfLen(n - 1), b \in HashBytes}

HashKeys == UNION {BytesOfLen(n) : n \in 0..MaxHashLen}

InitHash == Starts(Recover(EmptyPool), 1)

\* line 577: auto hash = (uint8_t)size
PearsonCall ==
    /\ hashing.pc = "idle"
    /\ budget > 0
    /\ \E data \in HashKeys : \E signed_char \in BOOLEAN :
          hashing' = [pc |-> "loop", data |-> data, i |-> Len(data),
                      hash |-> Len(data) % 256, signed_char |-> signed_char,
                      result |-> 0]
    /\ UNCHANGED <<pmpool, tree_top, nodes, leaves_prealloc, last, budget, expect, calls,
                   payload>>

\* line 579: the subscript hash ^ data[--i] of the round that comes next
PearsonSubscript ==
    LET byte == hashing.data[hashing.i]
    IN  IF hashing.signed_char THEN PearsonIndex(hashing.hash, byte)
        ELSE Xor(hashing.hash, byte)

\* lines 578..580, one round: hash = PEARSON_LOOKUP_TABLE[hash ^ data[--i]].
\* A subscript below 0 reads the byte that lies that far in front of the
\* table, whatever it is, or touches memory that is not mapped.
PearsonStep ==
    /\ hashing.pc = "loop"
    /\ hashing.i > 0
    /\ LET index == PearsonSubscript
       IN  IF index \in 0..255
           THEN hashing' = [hashing EXCEPT !.i = @ - 1,
                                           !.hash = PEARSON_LOOKUP_TABLE[index + 1]]
           ELSE \/ \E read \in 0..255 :
                     hashing' = [hashing EXCEPT !.i = @ - 1, !.hash = read]
                \/ hashing' = [hashing EXCEPT !.pc = "fault"]
    /\ UNCHANGED <<pmpool, tree_top, nodes, leaves_prealloc, last, budget, expect, calls,
                   payload>>

\* a return without the modification of line 582
PearsonReturn_unmodified(hash) == hash

\* line 582: return (hash == 0) ? (uint8_t)1 : hash
PearsonReturn(hash) == IF hash = 0 THEN 1 ELSE hash

PearsonDone ==
    /\ hashing.pc = "loop"
    /\ hashing.i = 0
    /\ hashing' = [hashing EXCEPT !.pc = "returned", !.result = PearsonReturn(hashing.hash)]
    /\ UNCHANGED <<pmpool, tree_top, nodes, leaves_prealloc, last, budget, expect, calls,
                   payload>>

\* the rest of put (lines 194..226) with the hash that was returned
PutHashed ==
    /\ hashing.pc = "returned"
    /\ budget > 0
    /\ LET r == PutHeadLeaf(Now, hashing.result, hashing.data, <<>>, NoFault)
       IN  /\ Becomes(r.E)
           /\ last' = Op("put", hashing.data, <<>>, r.status, r.path, "none", Grew(r.E))
           /\ expect' = AfterPut(expect, hashing.data, <<>>, r.status)
           /\ calls' = <<>>
           /\ hashing' = [hashing EXCEPT !.pc = "stored"]
           /\ UNCHANGED payload
           /\ Spend

NextHash == PearsonCall \/ PearsonStep \/ PearsonDone \/ PutHashed

SpecHash == InitHash /\ [][NextHash]_vars

\* KVSlot::set on the empty slot of a new leaf, statement by statement, for
\* keys and values of at most MaxSlotLen bytes taken from SlotBytes
MaxSlotLen == 2
SlotBytes == {0, 97, 127}

RECURSIVE SlotStrings(_)
SlotStrings(n) ==
    IF n = 0 THEN {<<>>}
    ELSE SlotStrings(n - 1)
         \cup {Append(str, b) : str \in {t \in SlotStrings(n - 1) : Len(t) = n - 1},
                                b \in SlotBytes}

\* the four bytes of a uint32_t as the processor stores them (x86: least
\* significant byte first)
U32Bytes(v) ==
    <<v % 256, (v \div 256) % 256, (v \div 65536) % 256, (v \div 16777216) % 256>>

\* *((uint32_t *)(p + offset))
U32At(buf, offset) ==
    buf[offset + 1] + 256 * buf[offset + 2] + 65536 * buf[offset + 3]
      + 16777216 * buf[offset + 4]

\* memcpy(p + offset, bytes, Len(bytes)); the bytes are all inside the buffer
WriteAt(buf, offset, bytes) ==
    [i \in 1..Len(buf) |->
       IF i > offset /\ i <= offset + Len(bytes) THEN bytes[i - offset] ELSE buf[i]]

\* a buffer without the byte behind the value
PayloadSize_no_terminator(key, value) == Len(key) + Len(value) + 1 + 4 + 4 + 1

\* lines 626..627: ksize + vsize + 2 + sizeof(uint32_t) + sizeof(uint32_t)
\* + sizeof(uint8_t)
PayloadSize(key, value) == Len(key) + Len(value) + 2 + 4 + 4 + 1

InitSlot == Starts(Recover(EmptyPool), 1)

\* lines 622..628: kv is null in a new slot; make_persistent<char[]>(size)
\* value-initializes the elements of the new array
SlotAllocate ==
    /\ payload.pc = "idle"
    /\ budget > 0
    /\ \E key \in SlotStrings(MaxSlotLen) : \E value \in SlotStrings(MaxSlotLen) :
          LET size == PayloadSize(key, value)
          IN  payload' = [pc |-> "allocated", hash |-> PearsonHash(key), key |-> key,
                          value |-> value, size |-> size, buf |-> [i \in 1..size |-> 0]]
    /\ UNCHANGED <<pmpool, tree_top, nodes, leaves_prealloc, last, budget, expect, calls,
                   hashing>>

\* lines 630..632: set_ph_direct, set_ks_direct, set_vs_direct
SlotHeader ==
    /\ payload.pc = "allocated"
    /\ payload' = [payload EXCEPT
                     !.pc = "header",
                     !.buf = WriteAt(WriteAt(WriteAt(@, 4 + 4, <<payload.hash>>),
                                             0, U32Bytes(Len(payload.key))),
                                     4, U32Bytes(Len(payload.value)))]
    /\ UNCHANGED <<pmpool, tree_top, nodes, leaves_prealloc, last, budget, expect, calls,
                   hashing>>

\* lines 633..636: the key behind the header, the value one byte behind
\* the key
SlotCopy ==
    /\ payload.pc = "header"
    /\ LET kvptr == 4 + 4 + 1
       IN  payload' = [payload EXCEPT
                         !.pc = "set",
                         !.buf = WriteAt(WriteAt(@, kvptr, payload.key),
                                         kvptr + Len(payload.key) + 1, payload.value)]
    /\ UNCHANGED <<pmpool, tree_top, nodes, leaves_prealloc, last, budget, expect, calls,
                   hashing>>

\* what KVSlot::hash, key, keysize, val and valsize read from a buffer
\* (tree3.h lines 69..109)
PayloadRead(buf) ==
    LET ks == U32At(buf, 0)
        vs == U32At(buf, 4)
    IN  [ph |-> buf[4 + 4 + 1], ks |-> ks, vs |-> vs,
         key |-> SubSeq(buf, 1 + 1 + 4 + 4, 1 + 4 + 4 + ks),
         val |-> SubSeq(buf, 1 + 1 + 4 + 4 + ks + 1, 1 + 4 + 4 + ks + 1 + vs)]

\* the rest of put (lines 211..226): the slot is slot 0 of the first leaf
PutPayload ==
    /\ payload.pc = "set"
    /\ budget > 0
    /\ LET r == PutHeadLeaf(Now, payload.hash, payload.key, payload.value, NoFault)
       IN  /\ Becomes(r.E)
           /\ last' = Op("put", payload.key, payload.value, r.status, r.path, "none",
                         Grew(r.E))
           /\ expect' = AfterPut(expect, payload.key, payload.value, r.status)
           /\ calls' = <<>>
           /\ payload' = [payload EXCEPT !.pc = "stored"]
           /\ UNCHANGED hashing
           /\ Spend

NextSlot == SlotAllocate \/ SlotHeader \/ SlotCopy \/ PutPayload

SpecSlot == InitSlot /\ [][NextSlot]_vars

\* ------------------------------------------------------------------------
\* What a caller observes
\* ------------------------------------------------------------------------
\* get and exists for every key of the universe
View(E) == [key \in Keys |-> <<Get(E, key), Exists(E, key)>>]

\* the pairs reported by each, as a set and with their multiplicities
PairSet(E) ==
    LET pairs == Each(E)
    IN  {pairs[i] : i \in DOMAIN pairs}
PairBag(E) ==
    LET pairs == Each(E)
    IN  [pair \in {pairs[i] : i \in DOMAIN pairs} |->
           Cardinality({i \in DOMAIN pairs : pairs[i] = pair})]

\* the step just taken was the operation op
Step(op) == budget' = budget - 1 /\ last'.op = op

LeafNodes == {n \in DOMAIN nodes : nodes[n].is_leaf}
InnerNodes == {n \in DOMAIN nodes : ~nodes[n].is_leaf}

\* the live keys mirrored in the leaf nodes below node
RECURSIVE SubtreeKeys(_)
SubtreeKeys(node) ==
    IF node = NULL THEN {}
    ELSE IF nodes[node].is_leaf
         THEN {nodes[node].keys[slot] : slot \in {t \in Slots : nodes[node].hashes[t] # 0}}
    ELSE UNION {SubtreeKeys(nodes[node].children[i]) : i \in 0..nodes[node].keycount}

\* the slot of the pool behind slot i of leaf node n
Behind(n, i) == pmpool.leaf[nodes[n].leaf].slots[i]

\* ------------------------------------------------------------------------
\* Claims
\* ------------------------------------------------------------------------
\* C1: a put(K, V) that returned OK is followed by get(K) = OK with
\* exactly V and exists(K) = OK, whichever branch of put ran.
C1_PutThenGet ==
    (last.op = "put" /\ last.status = "OK")
        => /\ Get(Now, last.key) = [status |-> "OK", value |-> last.value]
           /\ Exists(Now, last.key) = "OK"

\* C2: a successful put(K, V) leaves count unchanged when exists(K) was
\* OK before it and raises count by exactly 1 when K was absent.
C2_PutCount ==
    [][(Step("put") /\ last'.status = "OK")
          => Count(Now') = Count(Now)
                           + (IF Exists(Now, last'.key) = "OK" THEN 0 ELSE 1)]_vars

\* C3: after a remove(K) that returned OK, get(K) and exists(K) return
\* NOT_FOUND and count is exactly one less than before.
C3_RemoveThenGone ==
    [][(Step("remove") /\ last'.status = "OK")
          => /\ Get(Now', last'.key).status = "NOT_FOUND"
             /\ Exists(Now', last'.key) = "NOT_FOUND"
             /\ Count(Now') = Count(Now) - 1]_vars

\* C4: closing and reopening the engine leaves get and exists of every
\* key, count and the pairs reported by each as they were.
C4_RestartKeeps ==
    [][Step("restart")
          => /\ View(Now') = View(Now)
             /\ Count(Now') = Count(Now)
             /\ PairSet(Now') = PairSet(Now)]_vars

C6_FailedPutKeeps ==
    [][(Step("put") /\ last'.status = "FAILED")
          => /\ pmpool' = pmpool
             /\ View(Now') = View(Now)
             /\ Count(Now') = Count(Now)]_vars

\* C7: when the transaction of remove(K) aborts, remove returns FAILED and
\* K is still present: exists(K) is OK, get(K) returns the previous value
\* and count is unchanged (the mirror entry is changed only after commit).
C7_FailedRemoveKeeps ==
    [][(Step("remove") /\ last'.status = "FAILED")
          => /\ Exists(Now', last'.key) = "OK"
             /\ Get(Now', last'.key) = Get(Now, last'.key)
             /\ Count(Now') = Count(Now)
             /\ nodes' = nodes]_vars

\* C8: no key is held by two live slots of the persistent leaves, nor by
\* two occupied entries of the volatile leaf nodes.
C8_NoDuplicateKeys ==
    /\ \A l1, l2 \in DOMAIN pmpool.leaf : \A s1, s2 \in Slots :
          (/\ SlotLive(pmpool.leaf[l1].slots[s1])
           /\ SlotLive(pmpool.leaf[l2].slots[s2])
           /\ KVSlot_key(pmpool.leaf[l1].slots[s1]) = KVSlot_key(pmpool.leaf[l2].slots[s2]))
              => (l1 = l2 /\ s1 = s2)
    /\ \A n1, n2 \in LeafNodes : \A s1, s2 \in Slots :
          (/\ nodes[n1].hashes[s1] # 0
           /\ nodes[n2].hashes[s2] # 0
           /\ nodes[n1].keys[s1] = nodes[n2].keys[s2])
              => (n1 = n2 /\ s1 = s2)

\* C9: LeafSearch(K) returns the leaf node that holds K, for every live
\* key K of every leaf node; and in every inner node the keys below
\* children[i] are <= keys[i] and > keys[i-1].
C9_Routing ==
    /\ \A n \in LeafNodes : \A slot \in Slots :
          nodes[n].hashes[slot] # 0 => LeafSearch(Now, nodes[n].keys[slot]) = n
    /\ \A n \in InnerNodes : \A i \in 0..nodes[n].keycount :
          \A key \in SubtreeKeys(nodes[n].children[i]) :
             /\ i < nodes[n].keycount => Compare(key, nodes[n].keys[i]) <= 0
             /\ i > 0 => Compare(key, nodes[n].keys[i - 1]) > 0

\* C10: between operations, hashes[i] of every leaf node equals the hash
\* stored in slot i of its persistent leaf (0 when the slot is empty),
\* keys[i] equals the stored key when the hash is not 0, and the keys for
\* which exists returns OK are the keys visited by all.
C10_Agreement ==
    /\ \A n \in LeafNodes : \A i \in Slots :
          /\ nodes[n].hashes[i] = (IF KVSlot_empty(Behind(n, i)) THEN 0
                                   ELSE KVSlot_hash(Behind(n, i)))
          /\ nodes[n].hashes[i] # 0 => nodes[n].keys[i] = KVSlot_key(Behind(n, i))
    /\ LET visited == All(Now)
       IN  {key \in Keys : Exists(Now, key) = "OK"}
              = {visited[i] : i \in DOMAIN visited}

\* C11: count reports the number of distinct keys that were successfully
\* put and not successfully removed since, after any sequence of put,
\* remove and restart.
C11_CountDistinct == Count(Now) = Cardinality(DOMAIN expect)

\* C12: one call of each invokes the callback exactly once for every key
\* that was put and not removed since, with the value of its last put,
\* and for nothing else; one call of all does the same with the keys.
C12_VisitOnce ==
    LET pairs == Each(Now)
        visited == All(Now)
    IN  /\ \A i, j \in DOMAIN pairs : pairs[i][1] = pairs[j][1] => i = j
        /\ {pairs[i] : i \in DOMAIN pairs} = {<<key, expect[key]>> : key \in DOMAIN expect}
        /\ \A i, j \in DOMAIN visited : visited[i] = visited[j] => i = j
        /\ {visited[i] : i \in DOMAIN visited} = DOMAIN expect

\* C13: a put(K, V) or a remove(K) leaves get(K') as it was, status and
\* value, for every key K' other than K, whichever branch it took.
C13_Frame ==
    [][(Step("put") \/ Step("remove"))
          => \A key \in Keys \ {last'.key} : Get(Now', key) = Get(Now, key)]_vars

\* C14: remove(K) of a key that was never put, or was removed since its
\* last put, returns NOT_FOUND and changes nothing: the pool, the volatile
\* tree, every get and exists result and count stay as they were.
C14_RemoveAbsent ==
    [][(Step("remove") /\ last'.key \notin DOMAIN expect)
          => /\ last'.status = "NOT_FOUND"
             /\ pmpool' = pmpool /\ nodes' = nodes /\ tree_top' = tree_top
             /\ View(Now') = View(Now)
             /\ Count(Now') = Count(Now)]_vars

\* C15: a get(K) that returns OK has invoked its callback exactly once,
\* with the value of a live slot of the pool that holds K; a get that
\* returns NOT_FOUND has not invoked it at all, and that is what it returns
\* when tree_top is null; exists(K) returns what get(K) returned.
C15_GetCallback ==
    last.op = "get"
        => /\ last.status \in {"OK", "NOT_FOUND"}
           /\ last.status = "OK"
                 => /\ Len(calls) = 1
                    /\ \E l \in DOMAIN pmpool.leaf : \E slot \in Slots :
                          /\ SlotLive(pmpool.leaf[l].slots[slot])
                          /\ KVSlot_key(pmpool.leaf[l].slots[slot]) = last.key
                          /\ KVSlot_val(pmpool.leaf[l].slots[slot]) = calls[1]
           /\ last.status = "NOT_FOUND" => calls = <<>>
           /\ tree_top = NULL => last.status = "NOT_FOUND"
           /\ Exists(Now, last.key) = last.status

\* a get that found its key and handed a non-empty value to the callback
C15_Witness ==
    last.op = "get" /\ last.status = "OK" /\ calls = << <<33>> >>

\* C16: when the engine is closed and reopened right after a put(K, V)
\* that returned OK, get(K) returns OK with exactly V.
C16_RoundTrip ==
    [][(Step("restart") /\ last.op = "put" /\ last.status = "OK")
          => Get(Now', last.key) = [status |-> "OK", value |-> last.value]]_vars

\* the persistent leaves reachable from root->head
Listed(E) ==
    LET list == LeafList(E.pmpool, E.pmpool.head)
    IN  {list[i] : i \in DOMAIN list}

\* every leaf of the pool, every leaf attached to a leaf node and every
\* leaf of the free pool is in the list
AllListed(E) ==
    /\ DOMAIN E.pmpool.leaf \subseteq Listed(E)
    /\ \A n \in DOMAIN E.nodes : E.nodes[n].is_leaf => E.nodes[n].leaf \in Listed(E)
    /\ \A i \in DOMAIN E.leaves_prealloc : E.leaves_prealloc[i] \in Listed(E)

\* C17: every persistent leaf of the pool, attached to a leaf node or held
\* in the free pool, is reachable from root.head, and a step leaves the
\* leaf list as it was or puts one new leaf in front of it.
C17_LeafList ==
    [][/\ AllListed(Now) /\ AllListed(Now')
       /\ LET old == LeafList(pmpool, pmpool.head)
              new == LeafList(pmpool', pmpool'.head)
          IN  \/ new = old
              \/ /\ new # <<>> /\ Tail(new) = old
                 /\ \A i \in DOMAIN old : old[i] # Head(new)]_vars

\* a split has put a third (or later) leaf at the head of the list and the
\* new key went into it
C17_Witness ==
    /\ last.op = "put" /\ last.status = "OK" /\ last.path = "split"
    /\ Len(pmpool.leaf) >= 3
    /\ nodes[LeafSearch(Now, last.key)].leaf = pmpool.head

\* the keys mirrored in leaf node n, and the keys of the live slots of its
\* persistent leaf
MirrorKeys(E, n) == {E.nodes[n].keys[s] : s \in {u \in Slots : E.nodes[n].hashes[u] # 0}}
StoredKeys(E, n) ==
    {KVSlot_key(E.pmpool.leaf[E.nodes[n].leaf].slots[s]) :
       s \in {u \in Slots : SlotLive(E.pmpool.leaf[E.nodes[n].leaf].slots[u])}}

\* C18: when a put splits a full leaf, split_key is the key with exactly
\* LEAF_KEYS/2 smaller keys among the old keys and the new one; afterwards
\* the original leaf holds exactly the keys <= split_key (LEAF_KEYS/2 + 1
\* of them) and the new leaf exactly the keys > split_key (the other
\* LEAF_KEYS - LEAF_KEYS/2), in the pool and in the mirror, and the new key
\* is in the new leaf iff it is > split_key.
C18_SplitPartition ==
    [][(Step("put") /\ last'.status = "OK" /\ last'.path = "split")
          => LET key == last'.key
                 old == LeafSearch(Now, key)
                 all == MirrorKeys(Now, old) \cup {key}
             IN  \E new \in DOMAIN nodes' \ DOMAIN nodes : \E split_key \in all :
                    LET low == {k \in all : Compare(k, split_key) <= 0}
                        high == {k \in all : Compare(k, split_key) > 0}
                    IN  /\ nodes'[new].is_leaf
                        /\ Cardinality({k \in all : Compare(k, split_key) < 0})
                              = LEAF_KEYS \div 2
                        /\ split_key = SplitKey(nodes[old], key)
                        /\ MirrorKeys(Now', old) = low /\ StoredKeys(Now', old) = low
                        /\ MirrorKeys(Now', new) = high /\ StoredKeys(Now', new) = high
                        /\ Cardinality(low) = (LEAF_KEYS \div 2) + 1
                        /\ Cardinality(high) = LEAF_KEYS - (LEAF_KEYS \div 2)
                        /\ (key \in MirrorKeys(Now', new)) <=> (Compare(key, split_key) > 0)]_vars

\* C19: between operations every inner node has 1 <= keycount <=
\* INNER_KEYS, children[0..keycount] are nodes and
\* children[keycount+1..INNER_KEYS+1] are null.
C19_InnerStructure ==
    \A n \in InnerNodes :
       /\ 1 <= nodes[n].keycount /\ nodes[n].keycount <= INNER_KEYS
       /\ \A i \in 0..(INNER_KEYS + 1) :
             IF i <= nodes[n].keycount
             THEN nodes[n].children[i] # NULL /\ nodes[n].children[i] \in DOMAIN nodes
             ELSE nodes[n].children[i] = NULL

\* a put has split a leaf, the inner node above it and added a new top
C19_Witness ==
    last.op = "put" /\ last.status = "OK" /\ last.grew >= 3

\* C20: in every inner node the routing keys keys[0..keycount) are in
\* strictly ascending order.
C20_SortedKeys ==
    \A n \in InnerNodes : \A i \in 1..(nodes[n].keycount - 1) :
       Compare(nodes[n].keys[i - 1], nodes[n].keys[i]) < 0

\* the routing keys keys[0..keycount) and the children
\* children[0..keycount] of an inner node, as sequences
RoutingKeys(nd, n) == [i \in 1..nd[n].keycount |-> nd[n].keys[i - 1]]
Children(nd, n) == [i \in 1..(nd[n].keycount + 1) |-> nd[n].children[i - 1]]
RemoveAt(s, i) == SubSeq(s, 1, i - 1) \o SubSeq(s, i + 1, Len(s))

\* C21: when a put makes a full inner node split, the node keeps its two
\* lowest keys and three lowest children, a new sibling holds the two
\* highest keys and three highest children in the same order, both have
\* keycount INNER_KEYS/2, the key between them is stored in neither and
\* separates the two in their parent, and the children of the two are the
\* former children plus the one inserted node, each once.
C21_InnerSplit ==
    [][Step("put")
          => \A n \in InnerNodes :
                (nodes[n].keycount = INNER_KEYS /\ nodes'[n].keycount < INNER_KEYS)
                   => \E ni \in DOMAIN nodes' \ DOMAIN nodes :
                      \E idx \in 1..(INNER_KEYS + 1) :
                      \E split_key \in Keys :
                         LET joined == RoutingKeys(nodes', n) \o <<split_key>>
                                          \o RoutingKeys(nodes', ni)
                             both == Children(nodes', n) \o Children(nodes', ni)
                             parent == nodes'[n].parent
                         IN  /\ ~nodes'[ni].is_leaf
                             /\ nodes'[n].keycount = INNER_KEYS \div 2
                             /\ nodes'[ni].keycount = INNER_KEYS \div 2
                             /\ RemoveAt(joined, idx) = RoutingKeys(nodes, n)
                             /\ RemoveAt(both, idx + 1) = Children(nodes, n)
                             /\ both[idx + 1] \in DOMAIN nodes' \ DOMAIN nodes
                             /\ \A i, j \in DOMAIN both : both[i] = both[j] => i = j
                             /\ parent # NULL /\ nodes'[ni].parent = parent
                             /\ \E j \in 0..(nodes'[parent].keycount - 1) :
                                   /\ nodes'[parent].keys[j] = split_key
                                   /\ nodes'[parent].children[j] = n
                                   /\ nodes'[parent].children[j + 1] = ni]_vars

\* a put has split a leaf and the inner node above it
C21_Witness ==
    last.op = "put" /\ last.grew >= 2 /\ Cardinality(InnerNodes) >= 3

\* C22: between operations the parent of children[i] of an inner node P
\* is P, for every i <= P.keycount, and the node held by tree_top has a
\* null parent.
C22_ParentRefs ==
    /\ tree_top # NULL => nodes[tree_top].parent = NULL
    /\ \A n \in InnerNodes : \A i \in 0..nodes[n].keycount :
          /\ nodes[n].children[i] \in DOMAIN nodes
          /\ nodes[nodes[n].children[i]].parent = n

\* a recovery that linked enough leaves to split an inner node and to
\* create a new top
C22_Witness ==
    last.op = "restart" /\ Cardinality(InnerNodes) >= 3

\* the nodes of the tree below and including node
RECURSIVE Subtree(_)
Subtree(node) ==
    IF node = NULL THEN {}
    ELSE IF nodes[node].is_leaf THEN {node}
    ELSE {node} \cup UNION {Subtree(nodes[node].children[i]) : i \in 0..nodes[node].keycount}

\* the leaf nodes of the tree
TreeLeaves == {n \in Subtree(tree_top) : nodes[n].is_leaf}

\* the persistent leaves of the list with a live slot
LiveLeaves == {l \in Listed(Now) : \E s \in Slots : SlotLive(pmpool.leaf[l].slots[s])}

\* C23: right after recovery the tree has exactly one leaf node for each
\* persistent leaf with a live slot, the free pool holds exactly the
\* leaves of the list without a live slot (each once), and tree_top is
\* null exactly when no leaf has a live slot.
C23_Recovered ==
    last.op = "restart"
        => /\ {nodes[n].leaf : n \in TreeLeaves} = LiveLeaves
           /\ \A n, m \in TreeLeaves : nodes[n].leaf = nodes[m].leaf => n = m
           /\ {leaves_prealloc[i] : i \in DOMAIN leaves_prealloc} = Listed(Now) \ LiveLeaves
           /\ \A i, j \in DOMAIN leaves_prealloc :
                 leaves_prealloc[i] = leaves_prealloc[j] => i = j
           /\ (tree_top = NULL) <=> (LiveLeaves = {})

\* a recovery of a pool with live leaves and a leaf whose only allocated
\* slot has the stored hash 0
C23_Witness ==
    /\ last.op = "restart" /\ tree_top # NULL
    /\ \E i \in DOMAIN leaves_prealloc : \E s \in Slots :
          LET kvslot == pmpool.leaf[leaves_prealloc[i]].slots[s]
          IN  ~KVSlot_empty(kvslot) /\ KVSlot_hash(kvslot) = 0

\* the leaf nodes below node, from left to right
RECURSIVE LeafOrder(_)
LeafOrder(node) ==
    IF node = NULL THEN <<>>
    ELSE IF nodes[node].is_leaf THEN <<node>>
    ELSE LET inner == nodes[node]
             RECURSIVE from(_)
             from(i) == IF i > inner.keycount THEN <<>>
                        ELSE LeafOrder(inner.children[i]) \o from(i + 1)
         IN  from(0)

\* the greatest mirrored key of a leaf node that has one
MaxKey(n) ==
    CHOOSE k \in MirrorKeys(Now, n) : \A x \in MirrorKeys(Now, n) : Compare(x, k) <= 0

\* C24: right after recovery the leaves of the tree, from left to right,
\* are in strictly ascending order of their greatest key, and the routing
\* key between two adjacent leaves (in their lowest common ancestor) is
\* the greatest key of the left one and is smaller than every key of the
\* right one.
C24_RecoveredOrder ==
    last.op = "restart"
        => /\ LET order == LeafOrder(tree_top)
              IN  \A i \in 1..(Len(order) - 1) :
                     /\ MirrorKeys(Now, order[i]) # {}
                     /\ MirrorKeys(Now, order[i + 1]) # {}
                     /\ Compare(MaxKey(order[i]), MaxKey(order[i + 1])) < 0
           /\ \A n \in Subtree(tree_top) :
                 ~nodes[n].is_leaf
                    => \A i \in 0..(nodes[n].keycount - 1) :
                          LET left == LeafOrder(nodes[n].children[i])
                              right == LeafOrder(nodes[n].children[i + 1])
                          IN  /\ left # <<>> /\ right # <<>>
                              /\ nodes[n].keys[i] = MaxKey(left[Len(left)])
                              /\ \A k \in MirrorKeys(Now, right[1]) :
                                    Compare(k, nodes[n].keys[i]) > 0

\* C25: every routing key keys[0..keycount) of every inner node is a
\* non-empty string (what KVInnerNode::assert_invariants asserts of the
\* keys).
C25_NonEmptyRoutingKeys ==
    \A n \in InnerNodes : \A i \in 0..(nodes[n].keycount - 1) : nodes[n].keys[i] # <<>>

\* C26: between operations no persistent slot has an allocated payload
\* whose stored hash byte is 0.
C26_NoTombstone ==
    \A l \in DOMAIN pmpool.leaf : \A s \in Slots :
        LET kvslot == pmpool.leaf[l].slots[s]
        IN  ~KVSlot_empty(kvslot) => KVSlot_hash(kvslot) # 0

\* C27: a put that needs a new persistent leaf (first leaf of an empty
\* tree, or a leaf split) and finds leaves_prealloc non-empty leaves
\* root->head and the leaf list as they are and, when it succeeds, gives
\* the last leaf of leaves_prealloc to the new leaf node and removes it from
\* leaves_prealloc; with leaves_prealloc empty a successful put allocates
\* one leaf, which becomes the head of the list in front of the old head,
\* and a failed one leaves the list as it is.
C27_TakeLeaf ==
    [][(Step("put") /\ last'.path \in {"head", "split"}) =>
          LET before == LeafList(pmpool, pmpool.head)
              after == LeafList(pmpool', pmpool'.head)
              new_nodes == {n \in DOMAIN nodes' \ DOMAIN nodes : nodes'[n].is_leaf}
          IN  IF leaves_prealloc # <<>>
              THEN /\ pmpool'.head = pmpool.head
                   /\ after = before
                   /\ Len(pmpool'.leaf) = Len(pmpool.leaf)
                   /\ last'.status = "OK" =>
                        /\ leaves_prealloc' =
                             SubSeq(leaves_prealloc, 1, Len(leaves_prealloc) - 1)
                        /\ \E n \in new_nodes :
                             nodes'[n].leaf = leaves_prealloc[Len(leaves_prealloc)]
              ELSE /\ leaves_prealloc' = <<>>
                   /\ last'.status = "OK" =>
                        /\ pmpool'.head \notin DOMAIN pmpool.leaf
                        /\ after = <<pmpool'.head>> \o before
                        /\ \E n \in new_nodes : nodes'[n].leaf = pmpool'.head
                   /\ last'.status # "OK" => after = before]_vars

\* a split has succeeded whose new leaf node holds a persistent leaf that
\* is not the head of the list: it came from leaves_prealloc
C27_Witness ==
    /\ last.op = "put" /\ last.status = "OK" /\ last.path = "split"
    /\ LET n == Cardinality(DOMAIN nodes) - last.grew + 1
       IN  n \in DOMAIN nodes /\ nodes[n].is_leaf /\ nodes[n].leaf # pmpool.head

\* C28: a put whose leaf split fails (the pool transaction of the split
\* aborts) leaves tree_top, the set of inner nodes, every inner node and
\* the parent of every leaf node as they were: InnerUpdateAfterSplit runs
\* only after the transaction has committed.
C28_AbortedSplit ==
    [][(Step("put") /\ last'.path = "split" /\ last'.status # "OK") =>
          /\ tree_top' = tree_top
          /\ {n \in DOMAIN nodes' : ~nodes'[n].is_leaf} = InnerNodes
          /\ \A n \in InnerNodes : nodes'[n] = nodes[n]
          /\ {n \in DOMAIN nodes' : nodes'[n].is_leaf} = LeafNodes
          /\ \A n \in LeafNodes : nodes'[n].parent = nodes[n].parent]_vars

\* a split below an inner node has failed in KVSlot::set, after the loop
\* that moves the slots
C28_Witness ==
    /\ last.op = "put" /\ last.path = "split" /\ last.status = "FAILED"
    /\ last.at = "set"
    /\ tree_top \in InnerNodes

\* C29: remove(K) leaves tree_top, leaves_prealloc, root->head, the next
\* pointer of every leaf, the set of volatile nodes and every inner node as
\* they were; when K is not found nothing changes at all, and otherwise the
\* only changes are in one slot that held K: its hashes and keys entry in
\* the leaf node and the slot of the persistent leaf behind it (both empty
\* after a remove that returned OK).  The leaf node stays where it is even
\* when none of its slots is in use any more.
C29_RemoveFrame ==
    [][Step("remove") =>
          /\ tree_top' = tree_top
          /\ leaves_prealloc' = leaves_prealloc
          /\ pmpool'.head = pmpool.head
          /\ DOMAIN pmpool'.leaf = DOMAIN pmpool.leaf
          /\ \A l \in DOMAIN pmpool.leaf : pmpool'.leaf[l].next = pmpool.leaf[l].next
          /\ DOMAIN nodes' = DOMAIN nodes
          /\ \A n \in InnerNodes : nodes'[n] = nodes[n]
          /\ IF last'.path = "missing"
             THEN nodes' = nodes /\ pmpool' = pmpool
             ELSE \E n \in LeafNodes : \E s \in Slots :
                    /\ nodes[n].hashes[s] = PearsonHash(last'.key)
                    /\ nodes[n].keys[s] = last'.key
                    /\ nodes' = [nodes EXCEPT ![n].hashes[s] = nodes'[n].hashes[s],
                                              ![n].keys[s] = nodes'[n].keys[s]]
                    /\ pmpool' = [pmpool EXCEPT !.leaf[nodes[n].leaf].slots[s] =
                                                   pmpool'.leaf[nodes[n].leaf].slots[s]]
                    /\ last'.status = "OK" =>
                         /\ nodes'[n].hashes[s] = 0
                         /\ nodes'[n].keys[s] = <<>>
                         /\ KVSlot_empty(pmpool'.leaf[nodes[n].leaf].slots[s])]_vars

\* a remove has returned OK and left a leaf node without any slot in use
\* below the inner node at the top
C29_Witness ==
    /\ last.op = "remove" /\ last.status = "OK"
    /\ tree_top \in InnerNodes
    /\ \E n \in TreeLeaves : \A s \in Slots : nodes[n].hashes[s] = 0

\* C30: in a put that splits a leaf, after the loop that moves the slots
\* every slot of the original leaf whose key sorts above split_key is found
\* in the new leaf at the same slot index, payload and mirror entry alike,
\* and its slot in the original leaf is empty in the pool and in the
\* mirror; every other slot of the original leaf holds what it held
\* before.  The put then stores the new key and changes no other slot of
\* the two leaves.
C30_SplitSlots ==
    [][(Step("put") /\ last'.path = "split" /\ last'.status = "OK") =>
          LET leafnode == LeafSearch(Now, last'.key)
              new_leafnode == NewId(nodes)
              split_key == SplitKey(nodes[leafnode], last'.key)
              during == SplitLoop(Now, leafnode, last'.key)
              leaf == nodes[leafnode].leaf
              new_leaf == during.nodes[new_leafnode].leaf
          IN  /\ \A slot \in Slots :
                   IF Compare(nodes[leafnode].keys[slot], split_key) > 0
                   THEN /\ during.pmpool.leaf[new_leaf].slots[slot] =
                             pmpool.leaf[leaf].slots[slot]
                        /\ during.nodes[new_leafnode].hashes[slot] =
                             nodes[leafnode].hashes[slot]
                        /\ during.nodes[new_leafnode].keys[slot] =
                             nodes[leafnode].keys[slot]
                        /\ KVSlot_empty(during.pmpool.leaf[leaf].slots[slot])
                        /\ during.nodes[leafnode].hashes[slot] = 0
                        /\ during.nodes[leafnode].keys[slot] = <<>>
                   ELSE /\ during.pmpool.leaf[leaf].slots[slot] =
                             pmpool.leaf[leaf].slots[slot]
                        /\ during.nodes[leafnode].hashes[slot] =
                             nodes[leafnode].hashes[slot]
                        /\ during.nodes[leafnode].keys[slot] = nodes[leafnode].keys[slot]
              /\ nodes'[new_leafnode].leaf = new_leaf
              /\ Cardinality({<<l, slot>> \in {leaf, new_leaf} \X Slots :
                                pmpool'.leaf[l].slots[slot] #
                                  during.pmpool.leaf[l].slots[slot]}) <= 1]_vars

\* C31: a slot is a hit for key K only when its hash and its whole key are
\* equal to those of K.  get(K) hands the callback the value of such a slot
\* and exists(K) returns OK exactly when there is one; put(K) and remove(K)
\* leave every slot of the leaf K is routed to that has the hash of K and
\* another key as it is, payload and mirror entry alike, in its leaf or, when
\* the put split the leaf, at the same index of the new leaf.
C31_CollisionIsolation ==
    [][(Step("get") \/ Step("exists") \/ Step("put") \/ Step("remove")) =>
          LET key == last'.key
              hash == PearsonHash(key)
              leafnode == LeafSearch(Now, key)
              hits == IF leafnode = NULL THEN {}
                      ELSE {slot \in Slots : /\ nodes[leafnode].hashes[slot] = hash
                                             /\ nodes[leafnode].keys[slot] = key}
              rivals == IF leafnode = NULL THEN {}
                        ELSE {slot \in Slots : /\ nodes[leafnode].hashes[slot] = hash
                                               /\ nodes[leafnode].keys[slot] # key}
          IN  CASE last'.op = "get" ->
                     IF last'.status = "OK"
                     THEN \E slot \in hits :
                            calls' = <<KVSlot_val(Behind(leafnode, slot))>>
                     ELSE hits = {} /\ calls' = <<>>
                [] last'.op = "exists" -> (last'.status = "OK") <=> (hits # {})
                [] OTHER ->
                     \A slot \in rivals :
                       \E n \in {leafnode} \cup (DOMAIN nodes' \ DOMAIN nodes) :
                          /\ nodes'[n].is_leaf
                          /\ nodes'[n].hashes[slot] = hash
                          /\ nodes'[n].keys[slot] = nodes[leafnode].keys[slot]
                          /\ pmpool'.leaf[nodes'[n].leaf].slots[slot] =
                               Behind(leafnode, slot)]_vars

\* C32: PearsonHash returns a value in 1..255 (1 where the table walk ended
\* in 0), the value of the operator PearsonHash when no byte of the key is
\* above 0x7f; the slot a put stores with it has a stored hash in
\* 1..255, and a mirror entry hashes[slot] is 0 exactly where the persistent
\* slot is empty.
C32_HashRange ==
    /\ hashing.pc \in {"returned", "stored"} =>
         /\ hashing.result \in 1..255
         /\ hashing.hash = 0 => hashing.result = 1
         /\ (\A i \in 1..Len(hashing.data) : hashing.data[i] < 128)
               => hashing.result = PearsonHash(hashing.data)
    /\ \A n \in LeafNodes : \A slot \in Slots :
         /\ (nodes[n].hashes[slot] = 0) <=> KVSlot_empty(Behind(n, slot))
         /\ ~KVSlot_empty(Behind(n, slot)) =>
              /\ KVSlot_hash(Behind(n, slot)) \in 1..255
              /\ KVSlot_hash(Behind(n, slot)) = nodes[n].hashes[slot]

\* the table walk of the key "\x0f" has ended in 0 and the key was stored
\* with hash 1
C32_Witness ==
    /\ hashing.pc = "stored" /\ hashing.data = <<15>> /\ hashing.hash = 0
    /\ \E n \in LeafNodes : \E slot \in Slots :
         KVSlot_hash(Behind(n, slot)) = 1 /\ KVSlot_key(Behind(n, slot)) = <<15>>

\* C33: every subscript PearsonHash applies to PEARSON_LOOKUP_TABLE is in
\* 0..255, and the walk starts from the key size modulo 256.
C33_TableIndex ==
    /\ (hashing.pc = "loop" /\ hashing.i > 0) => PearsonSubscript \in 0..255
    /\ (hashing.pc = "loop" /\ hashing.i = Len(hashing.data)) =>
         hashing.hash = Len(hashing.data) % 256

\* C34 as stated: the buffer KVSlot::set allocates for a key of ks bytes
\* and a value of vs bytes is ks + vs + 10 bytes long.
C34_PayloadSize10 ==
    payload.pc \in {"set", "stored"} =>
        Len(payload.buf) = Len(payload.key) + Len(payload.value) + 10

\* C34, amended: the buffer is ks + vs + 11 bytes long; it holds ks as a
\* u32 at offset 0, vs as a u32 at offset 4, the hash byte at offset 8, the
\* key at offset 9, a zero byte at offset 9+ks, the value at offset 10+ks
\* and a zero byte at offset 10+ks+vs, its last byte; the accessors of
\* KVSlot read the hash, the key and the value back from it, and they are
\* what the slot of the pool holds after the put.
C34_PayloadLayout ==
    payload.pc \in {"set", "stored"} =>
        LET ks == Len(payload.key)
            vs == Len(payload.value)
            buf == payload.buf
            read == PayloadRead(buf)
        IN  /\ Len(buf) = ks + vs + 11
            /\ payload.size = ks + vs + 11
            /\ U32At(buf, 0) = ks
            /\ U32At(buf, 4) = vs
            /\ buf[8 + 1] = payload.hash
            /\ SubSeq(buf, 9 + 1, 9 + ks) = payload.key
            /\ buf[9 + ks + 1] = 0
            /\ SubSeq(buf, 10 + ks + 1, 10 + ks + vs) = payload.value
            /\ buf[10 + ks + vs + 1] = 0
            /\ read.ph = payload.hash /\ read.key = payload.key /\ read.val = payload.value
            /\ payload.pc = "stored" =>
                 LET kvslot == pmpool.leaf[nodes[tree_top].leaf].slots[0]
                 IN  /\ KVSlot_hash(kvslot) = read.ph
                     /\ KVSlot_key(kvslot) = read.key
                     /\ KVSlot_val(kvslot) = read.val

\* a key and a value of two bytes each, with a zero byte inside, have been
\* stored
C34_Witness ==
    /\ payload.pc = "stored"
    /\ payload.key = <<97, 0>> /\ payload.value = <<0, 127>>
    /\ Len(payload.buf) = 15

\* the depths below tree_top at which the leaf nodes under node are found
\* (-1 for a child that is missing)
RECURSIVE LeafDepths(_, _)
LeafDepths(node, depth) ==
    IF node = NULL THEN {-1}
    ELSE IF nodes[node].is_leaf THEN {depth}
    ELSE UNION {LeafDepths(nodes[node].children[i], depth + 1) :
                  i \in 0..nodes[node].keycount}

\* C35: all leaf nodes of the tree are at the same depth below tree_top.
C35_EqualDepth ==
    tree_top # NULL =>
        \E depth \in 0..Cardinality(DOMAIN nodes) : LeafDepths(tree_top, 0) = {depth}

\* a tree of three levels, after a put that split the top node or after a
\* recovery
C35_Witness ==
    /\ last.op \in {"put", "restart"}
    /\ tree_top # NULL
    /\ LeafDepths(tree_top, 0) = {2}

\* C36: no two leaf nodes of the tree hold the same persistent leaf, and no
\* persistent leaf of leaves_prealloc is held by a leaf node of the tree.
C36_LeafOwnership ==
    /\ \A n \in TreeLeaves : \A m \in TreeLeaves : nodes[n].leaf = nodes[m].leaf => n = m
    /\ \A i \in DOMAIN leaves_prealloc :
         \A n \in TreeLeaves : nodes[n].leaf # leaves_prealloc[i]

\* a put that took a leaf from leaves_prealloc has failed: the leaf is in
\* the list, but neither in leaves_prealloc nor in the tree
C36_Witness ==
    /\ last.op = "put" /\ last.status = "FAILED"
    /\ TreeLeaves # {}
    /\ \E l \in DOMAIN pmpool.leaf :
         /\ \A i \in DOMAIN leaves_prealloc : leaves_prealloc[i] # l
         /\ \A n \in TreeLeaves : nodes[n].leaf # l

\* C37: get, exists, count, all and each leave the pool (every leaf and
\* root->head), tree_top, every volatile node and leaves_prealloc as they
\* were, whatever status they return.
C37_ReadsChangeNothing ==
    [][(\E op \in {"get", "exists", "count", "all", "each"} : Step(op)) =>
          UNCHANGED <<pmpool, tree_top, nodes, leaves_prealloc>>]_vars

\* an each has handed pairs to its callback on a pool of more than one leaf
C37_Witness ==
    /\ last.op = "each" /\ Len(calls) >= 2
    /\ Len(pmpool.leaf) >= 2 /\ tree_top \in InnerNodes

====
